---------------------------- MODULE Spec2Model ----------------------------
(***************************************************************************)
(* A model of the Cosmos DB data migration tool.                           *)
(*                                                                         *)
(* Two programs share the driver (the source and destination containers):  *)
(*   - app.py: the Flask/SocketIO front end; index() starts migrate() as a *)
(*     background task, migrate() copies record by record and then starts  *)
(*     validate_data();                                                    *)
(*   - cosmos_data_migration.py: the command line tool; main() counts,     *)
(*     runs migrate_data() over a thread pool and then verify_data().      *)
(*                                                                         *)
(* The containers are the environment: other writers may add records to    *)
(* the destination and change the source while a run is in progress.       *)
(***************************************************************************)
EXTENDS Integers, Sequences, FiniteSets, TLC

\* ------------------------------------------------------------------ bounds

\* Largest --batch-size tried.
MaxBatch == 2

\* Largest --max-workers tried.
MaxWorkers == 2

\* Record ids are 1..MaxId.
MaxId == 2

\* Number of migrate() background tasks index() may start.
MaxRuns == 2

\* Number of writes other writers make to the destination container.
MaxExternalWrites == 1

\* Number of changes other writers make to the source container.
MaxSourceChanges == 1

Ids == 1..MaxId

Runs == 1..MaxRuns

\* ------------------------------------------------------------------ state

VARIABLES
    program,                     \* which program is running: "app" or "cli"
    initial_destination,         \* the ids in the destination before any run
    source,                      \* source container: the set of record ids in it
    destination,                 \* destination container: id -> "none" | "src" | "ext"
    extWrites,                   \* writes made to the destination by other writers
    srcChanges,                  \* changes made to the source by other writers
    migration_status,            \* app.py's module-level migration_status
    tasks,                       \* background migrate() tasks started by index()
    pc,                          \* position of each migrate() task
    startedAfter,                \* the tasks that had completed when a task was started
    status,                      \* migrate()'s local migration_status
    source_count,                \* migrate()'s source_count
    source_items,                \* migrate()'s source_items
    idx,                         \* migrate()'s loop index i
    progress_percentage,         \* migrate()'s progress_percentage, <<num, den>>
    successfully_migrated_count, \* migrate()'s successfully_migrated_count
    attempts,                    \* create_item calls made for the current item
    skipped_files_log,           \* lines written through each task's file object
    skipped_files_txt,           \* skipped_files.txt as it is on disk
    emitted,                     \* the 'update' events each task emitted, in order
    validation,                  \* validate_data() of each task
    cliPc,                       \* position of main() of the command line tool
    batch_size,                  \* --batch-size
    max_workers,                 \* --max-workers
    socketio,                    \* whether migrate_data was given a socketio
    items,                       \* migrate_data()'s items
    futures,                     \* migrate_data()'s futures, one per batch
    yielded,                     \* the futures as_completed has yielded
    not_migrated_items,          \* migrate_data()'s not_migrated_items
    created,                     \* the records whose create_item returned
    cliEmitted,                  \* the percentages migrate_data() emitted
    validation_result,           \* verify_data()'s validation_result
    retryPc,                     \* position of a call of upsert_item_with_retry
    retryItem,                   \* the item of that call
    attempt_number,              \* the attempts of that call made so far
    idle_for                     \* the time that call has slept between attempts

appVars == <<migration_status, tasks, pc, startedAfter, status, source_count,
             source_items, idx, progress_percentage, successfully_migrated_count,
             attempts, skipped_files_log, skipped_files_txt, emitted, validation>>

cliVars == <<cliPc, batch_size, max_workers, socketio, items, futures, yielded,
             not_migrated_items, created, cliEmitted, validation_result>>

retryVars == <<retryPc, retryItem, attempt_number, idle_for>>

fixedVars == <<program, initial_destination>>

envVars == <<source, destination, extWrites, srcChanges>>

vars == <<fixedVars, envVars, appVars, cliVars, retryVars>>

\* ------------------------------------------------------------ the driver

\* list(container.read_all_items()): the records of a container, by id.
RECURSIVE read_all_items(_)
read_all_items(S) ==
    IF S = {} THEN <<>>
    ELSE LET m == CHOOSE x \in S : \A y \in S : x <= y
         IN  <<m>> \o read_all_items(S \ {m})

\* count_items: SELECT VALUE COUNT(1) FROM c.
count_items(S) == Cardinality(S)

\* The ids present in the destination container.
DestIds == {d \in Ids : destination[d] # "none"}

\* A percentage is a fraction <<num, den>> with den > 0.
PctLeq(p, q) == p[1] * q[2] <= q[1] * p[2]

Range(s) == {s[k] : k \in 1..Len(s)}

\* Another writer creates a record in the destination container.
ExternalWrite ==
    /\ extWrites < MaxExternalWrites
    /\ \E d \in Ids :
          /\ destination[d] = "none"
          /\ destination' = [destination EXCEPT ![d] = "ext"]
    /\ extWrites' = extWrites + 1
    /\ UNCHANGED <<fixedVars, retryVars, cliVars, source, srcChanges, appVars>>

\* Another writer adds a record to the source container, or removes one.
SourceChange ==
    /\ srcChanges < MaxSourceChanges
    /\ \E d \in Ids :
          source' = IF d \in source THEN source \ {d} ELSE source \cup {d}
    /\ srcChanges' = srcChanges + 1
    /\ UNCHANGED <<fixedVars, retryVars, cliVars, destination, extWrites, appVars>>


\* ------------------------------------------------------------------ app.py

NoPct == <<>>

Event(kind, pct) == [kind |-> kind, pct |-> pct]

Unbound == [bound |-> FALSE, progress |-> <<>>, errors |-> ""]

\* The item the loop of migrate() is at.
item(r) == source_items[r][idx[r] + 1]

\* Leaving the with block closes the file: what was written reaches the disk.
CloseLog(r) == skipped_files_txt' = skipped_files_txt \o skipped_files_log[r]

\* POST /: store the configurations and start migrate() in the background.
index ==
    /\ program = "app"
    /\ tasks < MaxRuns
    /\ LET r == tasks + 1 IN
          /\ tasks' = r
          /\ pc' = [pc EXCEPT ![r] = "start"]
          /\ startedAfter' = [startedAfter EXCEPT
                                 ![r] = {q \in Runs : pc[q] = "completed"}]
    /\ migration_status' = [migration_status EXCEPT !.source_config = TRUE,
                                                    !.destination_config = TRUE]
    /\ UNCHANGED <<fixedVars, retryVars, cliVars, envVars, status, source_count, source_items, idx,
                   progress_percentage, successfully_migrated_count, attempts,
                   skipped_files_log, skipped_files_txt, emitted, validation>>

\* except Exception as e: migration_status['errors'] = str(e); emit.  The name
\* migration_status is local to migrate(): before its assignment the handler
\* itself raises UnboundLocalError and the task ends without an event.
migrateExcept(r, e) ==
    IF status[r].bound
    THEN /\ pc' = [pc EXCEPT ![r] = "failed"]
         /\ status' = [status EXCEPT ![r].errors = e]
         /\ emitted' = [emitted EXCEPT ![r] = Append(@, Event("errors", NoPct))]
    ELSE /\ pc' = [pc EXCEPT ![r] = "crashed"]
         /\ UNCHANGED <<status, emitted>>

\* migrate(), up to the first event: connect, get the containers, count.
migrateStart(r) ==
    /\ pc[r] = "start"
    /\ \E outcome \in {"ok", "connect", "count"} :
          IF outcome = "ok"
          THEN /\ source_count' = [source_count EXCEPT ![r] = count_items(source)]
               /\ status' = [status EXCEPT ![r] =
                     [bound |-> TRUE,
                      progress |-> <<"count", count_items(source)>>,
                      errors |-> ""]]
               /\ emitted' = [emitted EXCEPT ![r] = Append(@, Event("count", NoPct))]
               /\ pc' = [pc EXCEPT ![r] = "read"]
          ELSE /\ migrateExcept(r, outcome)
               /\ UNCHANGED source_count
    /\ UNCHANGED <<fixedVars, retryVars, cliVars, envVars, migration_status, tasks, startedAfter,
                   source_items, idx, progress_percentage,
                   successfully_migrated_count, attempts, skipped_files_log,
                   skipped_files_txt, validation>>

\* migrate(): read all the source items, open the log and write its header.
migrateReadAll(r) ==
    /\ pc[r] = "read"
    /\ \E outcome \in {"ok", "read"} :
          IF outcome = "ok"
          THEN /\ source_items' = [source_items EXCEPT ![r] = read_all_items(source)]
               /\ progress_percentage' = [progress_percentage EXCEPT ![r] = <<0, 1>>]
               /\ successfully_migrated_count' =
                     [successfully_migrated_count EXCEPT ![r] = 0]
               /\ idx' = [idx EXCEPT ![r] = 0]
               /\ skipped_files_log' = [skipped_files_log EXCEPT ![r] = <<<<"date">>>>]
               /\ pc' = [pc EXCEPT ![r] = "loop"]
               /\ UNCHANGED <<status, emitted>>
          ELSE /\ migrateExcept(r, outcome)
               /\ UNCHANGED <<source_items, progress_percentage,
                              successfully_migrated_count, idx, skipped_files_log>>
    /\ UNCHANGED <<fixedVars, retryVars, cliVars, envVars, migration_status, tasks, startedAfter,
                   source_count, attempts, skipped_files_txt, validation>>

\* item_exists_in_target: True when read_item returns, False on any exception
\* (the item is absent, or the read itself failed).
item_exists_in_target(d, readFails) == destination[d] # "none" /\ ~readFails

\* migrate(): the head of the loop, the existence check and the skip.
migrateExists(r) ==
    /\ pc[r] = "loop"
    /\ idx[r] < Len(source_items[r])
    /\ \E readFails \in BOOLEAN :
          IF item_exists_in_target(item(r), readFails)
          THEN /\ skipped_files_log' = [skipped_files_log EXCEPT
                                          ![r] = Append(@, <<"skipped", item(r)>>)]
               /\ emitted' = [emitted EXCEPT
                                 ![r] = Append(@, Event("exists", progress_percentage[r]))]
               /\ idx' = [idx EXCEPT ![r] = @ + 1]
               /\ UNCHANGED pc
          ELSE /\ pc' = [pc EXCEPT ![r] = "create"]
               /\ UNCHANGED <<skipped_files_log, emitted, idx>>
    /\ attempts' = [attempts EXCEPT ![r] = 0]
    /\ UNCHANGED <<fixedVars, retryVars, cliVars, envVars, migration_status, tasks, startedAfter, status,
                   source_count, source_items, progress_percentage,
                   successfully_migrated_count, skipped_files_txt, validation>>

\* A create that overwrites a record already present, as an upsert would.
create_item_overwrites(d) == {"created", "error"}

\* The outcomes create_item can have for record d.
create_item(d) ==
    IF destination[d] = "none" THEN {"created", "error"} ELSE {"Conflict", "error"}

\* progress_percentage = (i + 1) / source_count * 100
Percentage(i, count) == <<(i + 1) * 100, count>>

\* migrate(): create the item, then update the progress.
migrateCreate(r) ==
    /\ pc[r] = "create"
    /\ attempts' = [attempts EXCEPT ![r] = @ + 1]
    /\ \E outcome \in create_item(item(r)) :
          CASE outcome = "created" ->
                 /\ destination' = [destination EXCEPT ![item(r)] = "src"]
                 /\ successfully_migrated_count' =
                       [successfully_migrated_count EXCEPT ![r] = @ + 1]
                 /\ IF source_count[r] = 0
                    THEN \* ZeroDivisionError
                         /\ migrateExcept(r, "division by zero")
                         /\ CloseLog(r)
                         /\ UNCHANGED <<progress_percentage, idx>>
                    ELSE /\ progress_percentage' = [progress_percentage EXCEPT
                                ![r] = Percentage(idx[r], source_count[r])]
                         /\ status' = [status EXCEPT ![r].progress =
                                <<"migrating", idx[r] + 1, source_count[r]>>]
                         /\ emitted' = [emitted EXCEPT ![r] = Append(@,
                                Event("progress", Percentage(idx[r], source_count[r])))]
                         /\ idx' = [idx EXCEPT ![r] = @ + 1]
                         /\ pc' = [pc EXCEPT ![r] = "loop"]
                         /\ UNCHANGED skipped_files_txt
                 /\ UNCHANGED skipped_files_log
            [] outcome = "Conflict" ->
                 /\ skipped_files_log' = [skipped_files_log EXCEPT
                                            ![r] = Append(@, <<"skipped", item(r)>>)]
                 /\ emitted' = [emitted EXCEPT
                                   ![r] = Append(@, Event("Conflict", progress_percentage[r]))]
                 /\ idx' = [idx EXCEPT ![r] = @ + 1]
                 /\ pc' = [pc EXCEPT ![r] = "loop"]
                 /\ UNCHANGED <<destination, successfully_migrated_count,
                                progress_percentage, status, skipped_files_txt>>
            [] outcome = "error" ->
                 /\ migrateExcept(r, "create")
                 /\ CloseLog(r)
                 /\ UNCHANGED <<destination, successfully_migrated_count,
                                progress_percentage, idx, skipped_files_log>>
    /\ UNCHANGED <<fixedVars, retryVars, cliVars, source, extWrites, srcChanges, migration_status, tasks,
                   startedAfter, source_count, source_items, validation>>

\* migrate(): after the loop, the final update and the start of validation.
migrateFinish(r) ==
    /\ pc[r] = "loop"
    /\ idx[r] = Len(source_items[r])
    /\ status' = [status EXCEPT
                     ![r].progress = <<"completed", successfully_migrated_count[r]>>]
    /\ emitted' = [emitted EXCEPT ![r] = Append(@, Event("completed", <<100, 1>>))]
    /\ validation' = [validation EXCEPT ![r] = [st |-> "pending", src |-> 0, dst |-> 0]]
    /\ CloseLog(r)
    /\ pc' = [pc EXCEPT ![r] = "completed"]
    /\ UNCHANGED <<fixedVars, retryVars, cliVars, envVars, migration_status, tasks, startedAfter,
                   source_count, source_items, idx, progress_percentage,
                   successfully_migrated_count, attempts, skipped_files_log>>

\* validate_data(): count both containers and emit the two counts.
validate_data(r) ==
    /\ validation[r].st = "pending"
    /\ \E outcome \in {"ok", "error"} :
          IF outcome = "ok"
          THEN /\ validation' = [validation EXCEPT ![r] =
                     [st |-> "done", src |-> count_items(source),
                      dst |-> count_items(DestIds)]]
               /\ emitted' = [emitted EXCEPT ![r] = Append(@, Event("validation", NoPct))]
          ELSE /\ validation' = [validation EXCEPT ![r].st = "error"]
               /\ emitted' = [emitted EXCEPT ![r] = Append(@, Event("errors", NoPct))]
    /\ UNCHANGED <<fixedVars, retryVars, cliVars, envVars, migration_status, tasks, pc, startedAfter,
                   status, source_count, source_items, idx, progress_percentage,
                   successfully_migrated_count, attempts, skipped_files_log,
                   skipped_files_txt>>

\* ------------------------------------------------ cosmos_data_migration.py

NoResult == [ok |-> FALSE, src |-> -1, dst |-> -1]

\* A slice one record too long: it overlaps the next batch.
SliceLong(s, i, n) == SubSeq(s, i + 1, IF i + n + 1 < Len(s) THEN i + n + 1 ELSE Len(s))

\* items[i:i + batch_size]
Slice(s, i, n) == SubSeq(s, i + 1, IF i + n < Len(s) THEN i + n ELSE Len(s))

\* One future per batch: range(0, len(items), batch_size).
Batches(s, n) ==
    [b \in 1..((Len(s) + n - 1) \div n) |->
        [st |-> "pending", items |-> Slice(s, (b - 1) * n, n), pos |-> 0,
         not_migrated |-> <<>>]]

Futures == DOMAIN futures

Running == {b \in Futures : futures[b].st = "running"}

Resolved == {b \in Futures : futures[b].st \in {"done", "failed"}}

\* main(): parse the arguments, get the containers, count the source.
main ==
    /\ program = "cli"
    /\ cliPc = "idle"
    /\ \E bs \in 1..MaxBatch, mw \in 1..MaxWorkers, sio \in BOOLEAN, ok \in BOOLEAN :
          /\ batch_size' = bs
          /\ max_workers' = mw
          /\ socketio' = sio
          /\ cliPc' = IF ok THEN "migrate" ELSE "raised"
    /\ UNCHANGED <<fixedVars, retryVars, envVars, appVars, items, futures, yielded,
                   not_migrated_items, created, cliEmitted, validation_result>>

\* migrate_data(): read the items and submit one migrate_batch per batch.
migrate_data ==
    /\ cliPc = "migrate"
    /\ \E ok \in BOOLEAN :
          IF ok
          THEN /\ items' = read_all_items(source)
               /\ futures' = Batches(read_all_items(source), batch_size)
               /\ cliPc' = "pool"
          ELSE /\ cliPc' = "raised"
               /\ UNCHANGED <<items, futures>>
    /\ UNCHANGED <<fixedVars, retryVars, envVars, appVars, batch_size, max_workers, socketio,
                   yielded, not_migrated_items, created, cliEmitted,
                   validation_result>>

\* A worker thread of the pool takes the next batch of the queue.  The queue
\* is served also while the executor shuts down after an exception.
worker(b) ==
    /\ cliPc \in {"pool", "shutdown"}
    /\ futures[b].st = "pending"
    /\ \A c \in Futures : c < b => futures[c].st # "pending"
    /\ Cardinality(Running) < max_workers
    /\ futures' = [futures EXCEPT ![b].st = "running"]
    /\ UNCHANGED <<fixedVars, retryVars, envVars, appVars, cliPc, batch_size, max_workers,
                   socketio, items, yielded, not_migrated_items, created,
                   cliEmitted, validation_result>>

\* migrate_batch(): one turn of the loop over the batch's items.
migrate_batch(b) ==
    /\ futures[b].st = "running"
    /\ LET f == futures[b]
           d == f.items[f.pos + 1]
           st == IF f.pos + 1 = Len(f.items) THEN "done" ELSE "running"
       IN \E outcome \in create_item(d) :
             CASE outcome = "created" ->
                    /\ destination' = [destination EXCEPT ![d] = "src"]
                    /\ created' = created \cup {d}
                    /\ futures' = [futures EXCEPT ![b].pos = @ + 1, ![b].st = st]
               [] outcome = "Conflict" ->
                    /\ futures' = [futures EXCEPT
                                      ![b].pos = @ + 1, ![b].st = st,
                                      ![b].not_migrated = Append(@, d)]
                    /\ UNCHANGED <<destination, created>>
               [] outcome = "error" ->
                    /\ futures' = [futures EXCEPT ![b].st = "failed"]
                    /\ UNCHANGED <<destination, created>>
    /\ UNCHANGED <<fixedVars, retryVars, source, extWrites, srcChanges, appVars, cliPc,
                   batch_size, max_workers, socketio, items, yielded,
                   not_migrated_items, cliEmitted, validation_result>>

\* progress = (i + 1) / len(futures) * 100
Progress(i, n) == <<(i + 1) * 100, n>>

\* migrate_data(): as_completed yields a finished future; take its result.
as_completed(b) ==
    /\ cliPc = "pool"
    /\ b \in Resolved \ yielded
    /\ IF futures[b].st = "done"
       THEN /\ not_migrated_items' = not_migrated_items \o futures[b].not_migrated
            /\ yielded' = yielded \cup {b}
            /\ cliEmitted' = IF socketio
                             THEN Append(cliEmitted,
                                         Progress(Cardinality(yielded), Len(futures)))
                             ELSE cliEmitted
            /\ UNCHANGED cliPc
       ELSE \* future.result() raises: the with block is left
            /\ cliPc' = "shutdown"
            /\ UNCHANGED <<not_migrated_items, yielded, cliEmitted>>
    /\ UNCHANGED <<fixedVars, retryVars, envVars, appVars, batch_size, max_workers, socketio,
                   items, futures, created, validation_result>>

\* A loop that ends as soon as one future was yielded.
SomeYielded == yielded # {}

\* The loop over as_completed(futures) ends when every future was yielded.
AllYielded == yielded = Futures

\* migrate_data(): every future was yielded; the executor is shut down and
\* the list is returned.
migrate_data_return ==
    /\ cliPc = "pool"
    /\ AllYielded
    /\ cliPc' = "returned"
    /\ UNCHANGED <<fixedVars, retryVars, envVars, appVars, batch_size, max_workers, socketio,
                   items, futures, yielded, not_migrated_items, created,
                   cliEmitted, validation_result>>

\* The executor's __exit__ waits for every future, then the exception leaves
\* migrate_data() and main().
migrate_data_raise ==
    /\ cliPc = "shutdown"
    /\ Resolved = Futures
    /\ cliPc' = "raised"
    /\ UNCHANGED <<fixedVars, retryVars, envVars, appVars, batch_size, max_workers, socketio,
                   items, futures, yielded, not_migrated_items, created,
                   cliEmitted, validation_result>>

\* A comparison that accepts a destination holding more than the source.
CountsMatchAtMost(sc, dc) == sc <= dc

\* source_count == destination_count
CountsMatch(sc, dc) == sc = dc

\* verify_data(): count both containers and compare.
verify_data ==
    /\ cliPc = "returned"
    /\ \E ok \in BOOLEAN :
          IF ok
          THEN /\ validation_result' =
                     [ok |-> CountsMatch(count_items(source), count_items(DestIds)),
                      src |-> count_items(source), dst |-> count_items(DestIds)]
               /\ cliPc' = "verified"
          ELSE /\ cliPc' = "raised"
               /\ UNCHANGED validation_result
    /\ UNCHANGED <<fixedVars, retryVars, envVars, appVars, batch_size, max_workers, socketio,
                   items, futures, yielded, not_migrated_items, created, cliEmitted>>

\* ------------------------------------------------- upsert_item_with_retry

\* stop_after_attempt(3)
AttemptCap == 3

\* wait_exponential(multiplier=1, min=4, max=10)
WaitMin == 4

WaitMax == 10

\* A stop condition that allows one attempt too many.
stop_after_attempt_late(n) == n >= AttemptCap + 1

\* stop=stop_after_attempt(3): stop once that many attempts were made.
stop_after_attempt(n) == n >= AttemptCap

\* wait=wait_exponential(...): 2^(n - 1) seconds, kept within [min, max].
wait_exponential(n) ==
    LET exp == 2 ^ (n - 1)
    IN  IF exp < WaitMin THEN WaitMin ELSE IF exp > WaitMax THEN WaitMax ELSE exp

\* A call of upsert_item_with_retry(container, item).
upsert_item_with_retry ==
    /\ retryPc = "idle"
    /\ \E d \in Ids : retryItem' = d
    /\ attempt_number' = 1
    /\ retryPc' = "attempt"
    /\ UNCHANGED <<fixedVars, envVars, appVars, cliVars, idle_for>>

\* One attempt: container.upsert_item(body=item).  It returns, or it raises
\* and the decorator stops (RetryError) or waits for the next attempt.
upsert_item ==
    /\ retryPc = "attempt"
    /\ \E ok \in BOOLEAN :
          IF ok
          THEN /\ destination' = [destination EXCEPT ![retryItem] = "src"]
               /\ retryPc' = "returned"
               /\ UNCHANGED idle_for
          ELSE /\ IF stop_after_attempt(attempt_number)
                  THEN retryPc' = "raised" /\ UNCHANGED idle_for
                  ELSE /\ retryPc' = "sleep"
                       /\ idle_for' = idle_for + wait_exponential(attempt_number)
               /\ UNCHANGED destination
    /\ UNCHANGED <<fixedVars, source, extWrites, srcChanges, appVars, cliVars,
                   retryItem, attempt_number>>

\* The wait is over: the next attempt.
upsert_retry ==
    /\ retryPc = "sleep"
    /\ attempt_number' = attempt_number + 1
    /\ retryPc' = "attempt"
    /\ UNCHANGED <<fixedVars, envVars, appVars, cliVars, retryItem, idle_for>>

\* ------------------------------------------------------------ specification

Init ==
    /\ program \in {"app", "cli"}
    /\ source \in SUBSET Ids
    /\ destination \in [Ids -> {"none", "src"}]
    /\ initial_destination = {d \in Ids : destination[d] # "none"}
    /\ extWrites = 0
    /\ srcChanges = 0
    /\ migration_status = [progress |-> <<>>, errors |-> "", validation |-> "",
                           source_config |-> FALSE, destination_config |-> FALSE,
                           source_count |-> 0, not_migrated_items |-> <<>>]
    /\ tasks = 0
    /\ pc = [r \in Runs |-> "idle"]
    /\ startedAfter = [r \in Runs |-> {}]
    /\ status = [r \in Runs |-> Unbound]
    /\ source_count = [r \in Runs |-> 0]
    /\ source_items = [r \in Runs |-> <<>>]
    /\ idx = [r \in Runs |-> 0]
    /\ progress_percentage = [r \in Runs |-> <<0, 1>>]
    /\ successfully_migrated_count = [r \in Runs |-> 0]
    /\ attempts = [r \in Runs |-> 0]
    /\ skipped_files_log = [r \in Runs |-> <<>>]
    /\ skipped_files_txt = <<>>
    /\ emitted = [r \in Runs |-> <<>>]
    /\ validation = [r \in Runs |-> [st |-> "none", src |-> 0, dst |-> 0]]
    /\ cliPc = "idle"
    /\ batch_size = 1
    /\ max_workers = 1
    /\ socketio = FALSE
    /\ items = <<>>
    /\ futures = <<>>
    /\ yielded = {}
    /\ not_migrated_items = <<>>
    /\ created = {}
    /\ cliEmitted = <<>>
    /\ validation_result = NoResult
    /\ retryPc = "idle"
    /\ retryItem = 1
    /\ attempt_number = 0
    /\ idle_for = 0

\* The other writers of the two containers.
Environment ==
    \/ ExternalWrite
    \/ SourceChange

\* app.py: the requests and the background tasks.
NextApp ==
    \/ index
    \/ \E r \in Runs : migrateStart(r)
    \/ \E r \in Runs : migrateReadAll(r)
    \/ \E r \in Runs : migrateExists(r)
    \/ \E r \in Runs : migrateCreate(r)
    \/ \E r \in Runs : migrateFinish(r)
    \/ \E r \in Runs : validate_data(r)

\* cosmos_data_migration.py: main() and the worker threads.
NextCli ==
    \/ main
    \/ migrate_data
    \/ \E b \in Futures : worker(b)
    \/ \E b \in Futures : migrate_batch(b)
    \/ \E b \in Futures : as_completed(b)
    \/ migrate_data_return
    \/ migrate_data_raise
    \/ verify_data

Next == Environment \/ NextApp \/ NextCli

Spec == Init /\ [][Next]_vars

\* The command line tool alone.
InitCli == Init /\ program = "cli"

SpecCli == InitCli /\ [][Environment \/ NextCli]_vars

\* upsert_item_with_retry alone, called once; the calling thread keeps running.
NextRetry ==
    \/ upsert_item_with_retry
    \/ upsert_item
    \/ upsert_retry

SpecRetry == InitCli /\ [][NextRetry]_vars /\ WF_vars(NextRetry)


\* -------------------------------------------------------------- properties

\* The records a task wrote to the skip log.
SkippedCount(r) ==
    Cardinality({k \in DOMAIN skipped_files_log[r] :
                    skipped_files_log[r][k][1] = "skipped"})

\* The records whose create failed with an error other than Conflict.
FailedCount(r) == IF status[r].errors = "create" THEN 1 ELSE 0

FailedBatches == {b \in Futures : futures[b].st = "failed"}

Returned == cliPc \in {"returned", "verified"}

\* The events of a task that carry a percentage.
PctEvents(r) == {k \in DOMAIN emitted[r] : emitted[r][k].pct # NoPct}

IsHundred(p) == p # NoPct /\ p[1] = 100 * p[2]

\* C1: when a run completes normally, migrated + skipped + failed is the
\* number of records read from the source, for every batch size.
C1_CountsAddUp ==
    /\ \A r \in Runs :
          pc[r] = "completed" =>
             successfully_migrated_count[r] + SkippedCount(r) + FailedCount(r)
                = Len(source_items[r])
    /\ Returned =>
          Cardinality(created) + Len(not_migrated_items) + Cardinality(FailedBatches)
             = Len(items)

C1_Witness ==
    /\ Returned
    /\ Len(futures) = 2
    /\ created # {}
    /\ not_migrated_items # <<>>

\* Task r runs over the items of a task that had completed when r started.
SecondRun(r) ==
    /\ pc[r] \in {"loop", "create", "completed", "failed"}
    /\ \E q \in startedAfter[r] : source_items[q] = source_items[r]
    /\ extWrites = 0

\* C2: a second run over the same source, started after a first run completed
\* and with no other writer to the destination, creates nothing: every record
\* is skipped by the existence check and no create is attempted.
C2_Idempotent ==
    \A r \in Runs :
       SecondRun(r) =>
          /\ successfully_migrated_count[r] = 0
          /\ pc[r] # "create"
          /\ \A k \in DOMAIN emitted[r] : emitted[r][k].kind # "Conflict"

\* How many of the records s were in the destination before any run.
AlreadyThere(s) == Cardinality(Range(s) \cap initial_destination)

\* C3: with k of the N source records in the destination at the start and no
\* other writer, the run completes with migrated = N - k and skipped = k, and
\* the completion event carries 100.
C3_MigratedAndSkipped ==
    /\ \A r \in Runs :
          (/\ pc[r] = "completed"
           /\ extWrites = 0
           /\ \A q \in Runs \ {r} : successfully_migrated_count[q] = 0)
          =>
             /\ successfully_migrated_count[r]
                   = Len(source_items[r]) - AlreadyThere(source_items[r])
             /\ SkippedCount(r) = AlreadyThere(source_items[r])
             /\ FailedCount(r) = 0
             /\ \E k \in DOMAIN emitted[r] :
                   emitted[r][k].kind = "completed" /\ IsHundred(emitted[r][k].pct)
    /\ (Returned /\ extWrites = 0) =>
          /\ Cardinality(created) = Len(items) - AlreadyThere(items)
          /\ Len(not_migrated_items) = AlreadyThere(items)
          /\ FailedBatches = {}
          /\ (socketio /\ items # <<>>) => IsHundred(cliEmitted[Len(cliEmitted)])

C3_Witness ==
    \E r \in Runs :
       /\ pc[r] = "completed"
       /\ extWrites = 0
       /\ \A q \in Runs \ {r} : successfully_migrated_count[q] = 0
       /\ Len(source_items[r]) = 2
       /\ AlreadyThere(source_items[r]) = 1

\* C4: the percentages of the events of one run never decrease, and the
\* completion event carries exactly 100.
C4_MonotoneProgress ==
    /\ \A r \in Runs : \A j, k \in PctEvents(r) :
          j < k => PctLeq(emitted[r][j].pct, emitted[r][k].pct)
    /\ \A r \in Runs : \A k \in DOMAIN emitted[r] :
          emitted[r][k].kind = "completed" => IsHundred(emitted[r][k].pct)
    /\ \A j, k \in DOMAIN cliEmitted :
          j < k => PctLeq(cliEmitted[j], cliEmitted[k])

\* C5: a run is not aborted by a create that failed fewer times than the
\* attempt cap: the record is retried.
C5_RetriedBeforeAbort ==
    \A r \in Runs :
       (pc[r] = "failed" /\ status[r].errors = "create") => attempts[r] >= AttemptCap

\* C6: a record whose create fails for good never aborts the run: the run
\* ends completed and the record is in the skip log.
C6_FailureContained ==
    /\ \A r \in Runs : ~(pc[r] = "failed" /\ status[r].errors = "create")
    /\ FailedBatches # {} => cliPc \notin {"shutdown", "raised"}

\* C7: verify_data reports a match exactly when the two counts it takes are
\* equal, and its result carries both counts.
C7_VerifyMatchesIffEqual ==
    [][(cliPc = "returned" /\ cliPc' = "verified") =>
          /\ validation_result'.ok
                <=> (Cardinality(source) = Cardinality(DestIds))
          /\ validation_result'.src = Cardinality(source)
          /\ validation_result'.dst = Cardinality(DestIds)]_vars

C7_Witness ==
    /\ cliPc = "verified"
    /\ ~validation_result.ok
    /\ validation_result.src < validation_result.dst

\* C8: in every state of a run, migrated + skipped + failed is at most the
\* source count taken at the start.
C8_CountersWithinSourceCount ==
    \A r \in Runs :
       status[r].bound =>
          successfully_migrated_count[r] + SkippedCount(r) + FailedCount(r)
             <= source_count[r]

\* A migrate() task that has started and not ended.
Active(r) == pc[r] \in {"start", "read", "loop", "create"}

\* C9: at most one migration run is active at any time.
C9_AtMostOneActive == Cardinality({r \in Runs : Active(r)}) <= 1

\* C10: after a run completed, the module-level migration_status holds the
\* source count and the completion text, and an event was emitted.
C10_StatusAfterMigrate ==
    \A r \in Runs :
       pc[r] = "completed" =>
          /\ migration_status.source_count = source_count[r]
          /\ migration_status.progress = status[r].progress
          /\ emitted[r] # <<>>

\* C11: after validate_data ran with equal counts, the module-level
\* migration_status['validation'] is 'Data verification successful.' and an
\* update event was emitted.
C11_ValidationStatus ==
    \A r \in Runs :
       (validation[r].st = "done" /\ validation[r].src = validation[r].dst) =>
          /\ migration_status.validation = "Data verification successful."
          /\ \E k \in DOMAIN emitted[r] : emitted[r][k].kind = "validation"

\* C12: once the create of a record failed in one batch the run is aborted:
\* no batch is started and no record is created after the failure.
C12_AbortOnFatal ==
    [][FailedBatches # {} =>
          /\ created' = created
          /\ \A b \in Futures :
                futures[b].st = "pending" => futures'[b].st = "pending"]_vars

\* C13: every run of migrate that ends with an error, also one that fails
\* before any record is processed, has emitted an 'errors' event; the handler
\* itself does not fail.
C13_ErrorsReported ==
    \A r \in Runs :
       pc[r] \in {"failed", "crashed"} =>
          /\ pc[r] # "crashed"
          /\ \E k \in DOMAIN emitted[r] : emitted[r][k].kind = "errors"

\* C14: validation starts only after every record (every batch) of the run
\* was resolved, and never for a run that an error aborted.
C14_ValidationAfterRun ==
    /\ \A r \in Runs :
          validation[r].st # "none" =>
             /\ pc[r] = "completed"
             /\ idx[r] = Len(source_items[r])
    /\ Returned =>
          /\ Resolved = Futures
          /\ FailedBatches = {}
          /\ \A b \in Futures : futures[b].pos = Len(futures[b].items)
    /\ validation_result # NoResult => cliPc = "verified"

C14_Witness ==
    \E r \in Runs :
       /\ validation[r].st = "done"
       /\ Len(source_items[r]) = 2
       /\ successfully_migrated_count[r] = 1

\* The record batch b is about to create.
NextOf(b) == futures[b].items[futures[b].pos + 1]

\* C15: the existence check is consulted before any write.  A record the
\* check found is skipped without a create; a create is attempted only after
\* the check reported the record absent, so with no other writer no create is
\* attempted for a record that is in the destination.
C15_ExistsBeforeCreate ==
    [][/\ \A r \in Runs :
             /\ attempts'[r] = attempts[r] + 1 => pc[r] = "create"
             /\ (pc[r] # "create" /\ pc'[r] = "create") =>
                   /\ pc[r] = "loop"
                   /\ skipped_files_log'[r] = skipped_files_log[r]
             /\ (pc[r] = "loop" /\ idx'[r] = idx[r] + 1) =>
                   /\ destination' = destination
                   /\ pc'[r] = "loop"
       /\ \A b \in Futures :
             (futures[b].st = "running" /\ futures'[b] # futures[b] /\ extWrites = 0)
                => destination[NextOf(b)] = "none"]_vars

\* C16: when create returns Conflict (the create of a record that is in the
\* destination does not raise another error), the record is recorded as a
\* skip, it is not counted as migrated, the destination is left as it was and
\* the run goes on with the next record.
C16_ConflictIsSkip ==
    [][/\ \A r \in Runs :
             (/\ pc[r] = "create"
              /\ destination[item(r)] # "none"
              /\ pc'[r] \notin {"create", "failed"})
             =>
                /\ pc'[r] = "loop"
                /\ idx'[r] = idx[r] + 1
                /\ successfully_migrated_count'[r] = successfully_migrated_count[r]
                /\ skipped_files_log'[r] =
                      Append(skipped_files_log[r], <<"skipped", item(r)>>)
                /\ emitted'[r] =
                      Append(emitted[r], Event("Conflict", progress_percentage[r]))
                /\ destination' = destination
       /\ \A b \in Futures :
             (/\ futures[b].st = "running"
              /\ futures'[b] # futures[b]
              /\ destination[NextOf(b)] # "none"
              /\ futures'[b].st # "failed")
             =>
                /\ futures'[b].pos = futures[b].pos + 1
                /\ futures'[b].not_migrated = Append(futures[b].not_migrated, NextOf(b))
                /\ created' = created
                /\ destination' = destination]_vars

C16_Witness ==
    \E r \in Runs :
       /\ pc[r] = "completed"
       /\ \E j, k \in DOMAIN emitted[r] :
             /\ j < k
             /\ emitted[r][j].kind = "Conflict"
             /\ emitted[r][k].kind = "progress"

\* C17: every percentage a run emits lies in [0, 100]; with a source count
\* of 0 the percentage is 100 and nothing is divided by the count.
C17_PercentageInRange ==
    /\ \A r \in Runs : \A k \in PctEvents(r) :
          /\ PctLeq(<<0, 1>>, emitted[r][k].pct)
          /\ PctLeq(emitted[r][k].pct, <<100, 1>>)
          /\ source_count[r] = 0 => IsHundred(emitted[r][k].pct)
    /\ \A r \in Runs : status[r].errors # "division by zero"
    /\ \A k \in DOMAIN cliEmitted :
          PctLeq(<<0, 1>>, cliEmitted[k]) /\ PctLeq(cliEmitted[k], <<100, 1>>)

\* The skip entries the tasks 1..n wrote through their file objects.
RECURSIVE WrittenEntries(_)
WrittenEntries(n) == IF n = 0 THEN 0 ELSE SkippedCount(n) + WrittenEntries(n - 1)

\* The skip entries in skipped_files.txt on the disk.
EntriesOnDisk == {j \in DOMAIN skipped_files_txt : skipped_files_txt[j][1] = "skipped"}

\* C18: the skip log is flushed on every write: every skip entry a task wrote
\* is on the disk, so a crash loses none.
C18_FlushedOnWrite ==
    /\ Cardinality(EntriesOnDisk) = WrittenEntries(MaxRuns)
    /\ \A r \in Runs : \A k \in DOMAIN skipped_files_log[r] :
          skipped_files_log[r][k][1] = "skipped" =>
             \E j \in EntriesOnDisk : skipped_files_txt[j] = skipped_files_log[r][k]

\* C19: upsert_item_with_retry makes at most 3 attempts: it waits and tries
\* again only after fewer than 3 failed attempts, it raises only after the
\* third, and every call returns or raises.
C19_RetryBounded ==
    /\ [](attempt_number <= AttemptCap)
    /\ [](retryPc = "sleep" => attempt_number < AttemptCap)
    /\ [](retryPc = "raised" => attempt_number = AttemptCap)
    /\ [](retryPc = "returned" => destination[retryItem] = "src")
    /\ [][retryPc = "attempt" =>
             \/ retryPc' \in {"returned", "raised"}
             \/ attempt_number' = attempt_number /\ retryPc' = "sleep"]_vars
    /\ (retryPc = "attempt") ~> (retryPc \in {"returned", "raised"})

C19_Witness ==
    /\ retryPc = "raised"
    /\ attempt_number = 3
    /\ idle_for = 8

\* The records whose create_item returned Conflict in some batch.
ConflictRecords == UNION {Range(futures[b].not_migrated) : b \in Futures}

\* C20: when migrate_data returns, every record read is in the destination
\* and the returned list holds exactly the records whose create returned
\* Conflict, each once, whatever the order in which the batches completed.
C20_ReturnedListIsConflicts ==
    Returned =>
       /\ Range(items) \subseteq DestIds
       /\ Range(not_migrated_items) = ConflictRecords
       /\ Range(not_migrated_items) = Range(items) \ created
       /\ Len(not_migrated_items) = Cardinality(Range(not_migrated_items))

C20_Witness ==
    /\ Returned
    /\ max_workers = 2
    /\ not_migrated_items = <<2, 1>>

\* A step of a run: a step that is not a write of another writer.
StepOfRun == extWrites' = extWrites /\ srcChanges' = srcChanges

\* C21: a step of a migration run leaves the source as it was and leaves every
\* record that is in the destination there with its content; the destination
\* only gains records of the source whose id was absent.
C21_RunOnlyAddsAbsent ==
    /\ [](\A d \in initial_destination : destination[d] = "src")
    /\ [][StepOfRun =>
             /\ source' = source
             /\ \A d \in Ids :
                   /\ destination[d] # "none" => destination'[d] = destination[d]
                   /\ destination'[d] # destination[d] =>
                         /\ destination[d] = "none"
                         /\ destination'[d] = "src"]_vars

C21_Witness ==
    /\ \E d \in Ids :
          /\ destination[d] = "ext"
          /\ \/ d \in Range(not_migrated_items)
             \/ \E r \in Runs : \E k \in DOMAIN emitted[r] :
                   /\ emitted[r][k].kind = "Conflict"
                   /\ d \in Range(source_items[r])
    /\ \E e \in Ids \ initial_destination : destination[e] = "src"
    /\ srcChanges = 0

=============================================================================
